---- MODULE Spec2Model ----
(***************************************************************************)
(* Market-intel agent: the mission orchestration loop (AgentService), its  *)
(* tool gateway (execute_tool), the Groq language-model client and the     *)
(* Playwright scraper (scrape_web).                                        *)
(*                                                                         *)
(* Strings are modelled as sequences of atoms (a free monoid): a literal   *)
(* of the code or a value supplied by the environment is one atom,         *)
(* concatenation and f-string formatting are \o.  Two texts are            *)
(* byte-identical iff they are the same sequence of atoms.  Each atom has  *)
(* a length and the set of marker-relevant fragments it contains, written  *)
(* in the letter case in which they occur.                                 *)
(***************************************************************************)
EXTENDS Integers, Sequences, FiniteSets, TLC

(* ------------------------------------------------------------------ *)
(* Bounds of the model                                                 *)
(* ------------------------------------------------------------------ *)
MaxPlanLen == 2

(* ------------------------------------------------------------------ *)
(* Text model                                                          *)
(* ------------------------------------------------------------------ *)

\* Atoms supplied by the environment: page bodies, search hits, model
\* answers, exception messages, addresses.
PageAtoms == {"PAGE_LONG", "PAGE_LONG_COOKIE", "PAGE_MID", "PAGE_MID_BLOCKED", "PAGE_499", "PAGE_500"}
ReportAtoms == {"REPORT_GOOD", "REPORT_WITH_ERROR_WORD"}
ExcAtoms == {"boom"}
GoodUrl == "https://a.example/p"

\* len() of one atom.  Literals carry the length of the literal in the
\* source; environment atoms carry a representative length on the side of
\* each threshold of the code (50, 100, 500).
AtomLen(a) ==
  CASE a = "Error: No URL provided for web_research" -> 39
    [] a = "Error: Invalid URL - " -> 21
    [] a = "Tool Failure: " -> 14
    [] a = "Latest info from " -> 17
    [] a = "Market Intelligence Query" -> 25
    [] a = "Notion OK" -> 11
    [] a = "Notion Error" -> 14
    [] a = "Email OK" -> 10
    [] a = "Email Error" -> 13
    [] a = "Error: Tool '" -> 13
    [] a = "' not found." -> 12
    [] a = "Mission failed: No meaningful data gathered." -> 44
    [] a = "\n---\n" -> 5
    [] a = "\n" -> 1
    [] a = "Maximum retries reached. Groq API request failed." -> 51
    [] a = "No search results found." -> 24
    [] a = "Search error: " -> 14
    [] a = "Error: Scrape operation timed out" -> 109
    [] a = "Error: Page loaded but very little content extracted" -> 103
    [] a = "Error: Browser initialization timed out" -> 103
    [] a = "Error: Failed to initialize browser - " -> 38
    [] a = "Error: Browser launch timed out" -> 83
    [] a = "Error: Browser launch failed - " -> 31
    [] a = "Error: Page navigation timed out" -> 108
    [] a = "Error: Request timed out" -> 85
    [] a = "Error: " -> 7
    [] a = "PAGE_LONG" -> 800
    [] a = "PAGE_LONG_COOKIE" -> 800
    [] a = "PAGE_MID" -> 200
    [] a = "PAGE_MID_BLOCKED" -> 200
    [] a = "PAGE_TINY" -> 40
    [] a = "PAGE_499" -> 499
    [] a = "PAGE_500" -> 500
    [] a = "SEARCH_HITS" -> 900
    [] a = "REPORT_GOOD" -> 600
    [] a = "REPORT_SHORT" -> 30
    [] a = "REPORT_WITH_ERROR_WORD" -> 300
    [] a = "NOTE_PLACEHOLDER" -> 80
    [] a = "NOTE_INSERT_HERE" -> 80
    [] a = "NOTE_NO_DATA" -> 80
    [] a = "TEXT_49" -> 49
    [] a = "TEXT_50" -> 50
    [] a = "TEXT_1" -> 1
    [] a = "PLAN_JSON" -> 400
    [] a = "PLAN_PROSE" -> 120
    [] a = "PLAN_BROKEN_ARRAY" -> 120
    [] a = "boom" -> 4
    [] a = GoodUrl -> 19
    [] a = " https://a.example/p " -> 21
    [] a = "crawl_site" -> 10
    [] OTHER -> 10

\* The marker-relevant fragments an atom contains, in the case they occur.
AtomWords(a) ==
  CASE a \in {"Error: No URL provided for web_research", "Error: Invalid URL - ",
              "Error: Tool '", "Error: Failed to initialize browser - ",
              "Error: Browser initialization timed out", "Error: Browser launch timed out",
              "Error: Browser launch failed - ", "Error: "} -> {"Error"}
    [] a \in {"Error: Scrape operation timed out", "Error: Page navigation timed out",
              "Error: Request timed out",
              "Error: Page loaded but very little content extracted"} -> {"Error", "blocking"}
    [] a \in {"Notion Error", "Email Error"} -> {"Error"}
    [] a = "Search error: " -> {"error"}
    [] a = "PAGE_LONG_COOKIE" -> {"Cookie"}
    [] a = "PAGE_MID_BLOCKED" -> {"blocked"}
    [] a = "REPORT_WITH_ERROR_WORD" -> {"ERROR"}
    [] a = "NOTE_PLACEHOLDER" -> {"Placeholder"}
    [] a = "NOTE_INSERT_HERE" -> {"INSERT HERE"}
    [] a = "NOTE_NO_DATA" -> {"No Data Found"}
    [] OTHER -> {}

\* Mutant: the text is compared as it is, without str.lower().
LowerWordIdentity(w) == w

\* str.lower() on one fragment.
LowerWord(w) ==
  CASE w = "Error" -> "error"
    [] w = "ERROR" -> "error"
    [] w = "Cookie" -> "cookie"
    [] w = "Placeholder" -> "placeholder"
    [] w = "INSERT HERE" -> "insert here"
    [] w = "No Data Found" -> "no data found"
    [] OTHER -> w

RECURSIVE TextLen(_)
TextLen(t) == IF t = <<>> THEN 0 ELSE AtomLen(Head(t)) + TextLen(Tail(t))

\* The fragments of t.lower().
LowerWords(t) == {LowerWord(w) : w \in UNION {AtomWords(t[i]) : i \in DOMAIN t}}

\* any(p in t.lower() for p in phrases)
ContainsAnyLower(t, phrases) == LowerWords(t) \cap phrases # {}

(* ------------------------------------------------------------------ *)
(* GroqClient.generate                                                 *)
(* ------------------------------------------------------------------ *)
max_retries == 3

\* What one HTTP attempt can do: answer with content, answer 429, time out,
\* answer another HTTP error status, answer with empty content, or fail with
\* any other exception (connection error, bad JSON body).
AttemptKinds == {"ok", "rate_limit", "timeout", "http_error", "empty", "conn_error"}

MaxRetriesText == <<"Maximum retries reached. Groq API request failed.">>

\* The detail of the HTTPException raised on the final attempt.
GroqFailureDetail(kind) ==
  CASE kind = "timeout" -> <<"Groq request timed out after ", "LLM_REQUEST_TIMEOUT", "s">>
    [] kind = "http_error" -> <<"Groq Error: ", "HTTP status error">>
    [] kind = "empty" -> <<"Groq Error: ", "Empty response from Groq">>
    [] OTHER -> <<"Groq Error: ", "boom">>

NoAnswer == [text |-> <<>>, array |-> "none", steps |-> <<>>]
MaxRetriesAnswer == [text |-> MaxRetriesText, array |-> "none", steps |-> <<>>]

\* Mutant: the wait after a 429 answer is the fixed two seconds of the other
\* handlers.
generate_attempt_fixed_wait(attempt, kind, answer) ==
  CASE kind = "ok" ->
         [exit |-> "return", answer |-> answer, detail |-> <<>>, sleep |-> 0]
    [] kind = "rate_limit" ->
         IF attempt + 1 < max_retries
         THEN [exit |-> "continue", answer |-> NoAnswer, detail |-> <<>>, sleep |-> 2]
         ELSE [exit |-> "return", answer |-> MaxRetriesAnswer, detail |-> <<>>, sleep |-> 2]
    [] OTHER ->
         IF attempt = max_retries - 1
         THEN [exit |-> "raise", answer |-> NoAnswer, detail |-> GroqFailureDetail(kind), sleep |-> 0]
         ELSE [exit |-> "continue", answer |-> NoAnswer, detail |-> <<>>, sleep |-> 2]

\* One iteration of the for-loop of generate (attempt counts from 0, as
\* range(max_retries) does), given what the HTTP attempt did and the content
\* the API gives on an "ok" attempt.  exit says how the iteration ends:
\* "return", "raise", or "continue" into the next iteration after
\* time.sleep(sleep).  A 429 answer always sleeps and continues; when that
\* was the last iteration the loop is exhausted and the statement after it
\* returns the fixed text.
generate_attempt(attempt, kind, answer) ==
  CASE kind = "ok" ->
         [exit |-> "return", answer |-> answer, detail |-> <<>>, sleep |-> 0]
    [] kind = "rate_limit" ->
         IF attempt + 1 < max_retries
         THEN [exit |-> "continue", answer |-> NoAnswer, detail |-> <<>>, sleep |-> (attempt + 1) * 2]
         ELSE [exit |-> "return", answer |-> MaxRetriesAnswer, detail |-> <<>>,
               sleep |-> (attempt + 1) * 2]
    [] OTHER ->
         IF attempt = max_retries - 1
         THEN [exit |-> "raise", answer |-> NoAnswer, detail |-> GroqFailureDetail(kind), sleep |-> 0]
         ELSE [exit |-> "continue", answer |-> NoAnswer, detail |-> <<>>, sleep |-> 2]

(* ------------------------------------------------------------------ *)
(* Plans                                                               *)
(* ------------------------------------------------------------------ *)
GatherTools == {"web_research", "web_search"}
DisseminateTools == {"save_to_notion", "dispatch_email"}

\* An args mapping: a key that is missing (or empty) holds the empty text.
NoArgs == [url |-> <<>>, query |-> <<>>, title |-> <<>>, content |-> <<>>]
PaddedUrl == " https://a.example/p "

\* A step of the decoded plan: argsKind says whether the step object has an
\* "args" key at all ("absent"), has it set to null, or has a mapping.
StepVariants ==
  {[tool |-> "web_research", argsKind |-> k, args |-> NoArgs] : k \in {"absent", "map"}}
  \cup {[tool |-> "web_research", argsKind |-> "map", args |-> [NoArgs EXCEPT !.url = <<PaddedUrl>>]]}
  \cup {[tool |-> "web_search", argsKind |-> k, args |-> NoArgs] : k \in {"null", "map"}}
  \cup {[tool |-> "web_search", argsKind |-> "map", args |-> [NoArgs EXCEPT !.query = <<"h100 price">>]]}
  \cup {[tool |-> "save_to_notion", argsKind |-> k, args |-> NoArgs] : k \in {"absent", "map"}}
  \cup {[tool |-> t, argsKind |-> "map",
         args |-> [NoArgs EXCEPT !.title = <<"H100 pricing">>, !.content = <<"PLACEHOLDER_CONTENT">>]]
          : t \in DisseminateTools}
  \cup {[tool |-> "crawl_site", argsKind |-> "map", args |-> NoArgs]}

Plans == UNION {[1..n -> StepVariants] : n \in 0..MaxPlanLen}

\* What the planning model can answer: prose without any bracket, a
\* bracketed substring that is not JSON, or a JSON array of step objects.
PlanAnswers ==
  {[text |-> <<"PLAN_PROSE">>, array |-> "none", steps |-> <<>>],
   [text |-> <<"PLAN_BROKEN_ARRAY">>, array |-> "invalid", steps |-> <<>>]}
  \cup {[text |-> <<"PLAN_JSON">>, array |-> "valid", steps |-> p] : p \in Plans}

ReportAnswers == {[text |-> <<a>>, array |-> "none", steps |-> <<>>] : a \in ReportAtoms}

\* generate_plan after the model call returned raw_response.
generate_plan(raw_response) ==
  IF raw_response.array = "none" THEN <<>>
  ELSE IF raw_response.array = "invalid" THEN <<>>
  ELSE raw_response.steps

(* ------------------------------------------------------------------ *)
(* Integrity gate and tool gateway                                     *)
(* ------------------------------------------------------------------ *)
forbidden == {"placeholder", "insert here", "no data found", "error"}
block_markers == {"cookie", "blocked", "verify", "robot"}
Sentinel == <<"Mission failed: No meaningful data gathered.">>

\* Mutant: a rejected candidate is always replaced by the fixed sentinel.
_integrity_check_sentinel(content, self_current_intel) ==
  IF content = <<>> \/ TextLen(content) < 50 \/ ContainsAnyLower(content, forbidden)
  THEN Sentinel
  ELSE content

_integrity_check(content, self_current_intel) ==
  IF content = <<>> \/ TextLen(content) < 50 \/ ContainsAnyLower(content, forbidden)
  THEN (IF self_current_intel # <<>> THEN self_current_intel ELSE Sentinel)
  ELSE content

\* str.strip() of an address.
Strip(u) == IF u = <<PaddedUrl>> THEN <<GoodUrl>> ELSE u

\* core.validators.validate_url is outside the sources at hand: the
\* environment says whether it accepts the address, rejects it or raises.
ValidateOutcomes == {"valid", "invalid", "raise"}

\* SearchService.search: the DDGS query gives hits, nothing, or raises.
DdgsOutcomes == {"hits", "none", "raise"}
search(query, ddgs) ==
  CASE ddgs = "hits" -> <<"SEARCH_HITS">>
    [] ddgs = "none" -> <<"No search results found.">>
    [] OTHER -> <<"Search error: ", "boom">>

\* What scrape_web can hand back (see the scraper below): one of its error
\* texts, or the cleaned page text, which then has at least 100 characters.
ScrapeErrors ==
  {<<"Error: Scrape operation timed out">>,
   <<"Error: ", "boom">>,
   <<"Error: Browser initialization timed out">>,
   <<"Error: Failed to initialize browser - ", "boom">>,
   <<"Error: Browser launch timed out">>,
   <<"Error: Browser launch failed - ", "boom">>,
   <<"Error: Page navigation timed out">>,
   <<"Error: Request timed out">>,
   <<"Error: Page loaded but very little content extracted">>}
ScrapeReturns == ScrapeErrors \cup {<<a>> : a \in PageAtoms}

CapabilityOutcomes == {"true", "false", "raise"}

\* The outcomes the environment fixes for one gateway invocation of `tool`
\* (only the capabilities that tool can reach vary).
EnvsOver(tool, scrapes, ddgs) ==
  [validate : IF tool = "web_research" THEN ValidateOutcomes ELSE {"valid"},
   scrape : IF tool = "web_research" THEN scrapes ELSE {<<"PAGE_LONG">>},
   ddgs : IF tool \in GatherTools THEN ddgs ELSE {"hits"},
   notion : IF tool = "save_to_notion" THEN CapabilityOutcomes ELSE {"true"},
   email : IF tool = "dispatch_email" THEN CapabilityOutcomes ELSE {"true"}]

\* Inside a mission run: one fetch outcome of each kind the gateway tells
\* apart (error text, long clean page, long page with a marker, short page
\* with a marker), and a search that answers or fails.
Envs(tool) ==
  EnvsOver(tool,
           {<<"Error: Scrape operation timed out">>, <<"PAGE_LONG">>, <<"PAGE_LONG_COOKIE">>,
            <<"PAGE_MID_BLOCKED">>},
           {"hits", "raise"})

Call(op, arg, out) == [op |-> op, arg |-> arg, out |-> out]
\* Mutant: the except clause returns the bare prefix, without str(e).
ToolFailureWithoutMessage(msg) == <<"Tool Failure: ">>

ToolFailure(msg) == <<"Tool Failure: ">> \o msg
NoneTypeMsg == <<"'NoneType' object has no attribute 'get'">>

\* What the body of a tool branch does: it returns a text, or an exception
\* with message exc leaves it; calls are the capability calls it made.
Returns(res, calls) == [raised |-> FALSE, res |-> res, exc |-> <<>>, calls |-> calls]
Raises(exc, calls) == [raised |-> TRUE, res |-> <<>>, exc |-> exc, calls |-> calls]

\* Mutant: only the length of the text decides.
NeedsFallbackShort(result) == TextLen(result) < 500

\* Mutant: fall back only when the text is short and carries a marker.
NeedsFallbackBoth(result) == ContainsAnyLower(result, block_markers) /\ TextLen(result) < 500

\* if any(m in result.lower() for m in [...]) or len(result) < 500
NeedsFallback(result) == ContainsAnyLower(result, block_markers) \/ TextLen(result) < 500

\* Mutant: the address is fetched whatever validate_url said about it.
web_research_unvalidated(argsKind, args, env) ==
  IF argsKind = "null" THEN Raises(NoneTypeMsg, <<>>)
  ELSE LET url_str == Strip(args.url)
           result == env.scrape
       IN Returns(result, <<Call("validate_url", url_str, <<env.validate>>),
                            Call("scrape_web", url_str, result)>>)

web_research(argsKind, args, env) ==
  IF argsKind = "null" THEN Raises(NoneTypeMsg, <<>>)
  ELSE IF args.url = <<>>
  THEN Returns(<<"Error: No URL provided for web_research">>, <<>>)
  ELSE LET url_str == Strip(args.url) IN
    IF env.validate = "raise"
    THEN Raises(<<"boom">>, <<Call("validate_url", url_str, <<"raise">>)>>)
    ELSE IF env.validate = "invalid"
    THEN Returns(<<"Error: Invalid URL - ">> \o <<"unsafe scheme">>,
                 <<Call("validate_url", url_str, <<"invalid">>)>>)
    ELSE LET result == env.scrape
             scraped == <<Call("validate_url", url_str, <<"valid">>),
                          Call("scrape_web", url_str, result)>>
         IN IF NeedsFallback(result)
            THEN LET q == <<"Latest info from ">> \o args.url
                     found == search(q, env.ddgs)
                 IN Returns(found, Append(scraped, Call("search", q, found)))
            ELSE Returns(result, scraped)

web_search(argsKind, args, env) ==
  IF argsKind = "null" THEN Raises(NoneTypeMsg, <<>>)
  ELSE LET query == IF args.query # <<>> THEN args.query ELSE <<"Market Intelligence Query">>
           found == search(query, env.ddgs)
       IN Returns(found, <<Call("search", query, found)>>)

save_to_notion(argsKind, args, env, self_current_intel) ==
  IF argsKind = "null" THEN Raises(NoneTypeMsg, <<>>)
  ELSE LET content == _integrity_check(args.content, self_current_intel) IN
    CASE env.notion = "true" ->
           Returns(<<"Notion OK">>, <<Call("create_page", content, <<"True">>)>>)
      [] env.notion = "false" ->
           Returns(<<"Notion Error">>, <<Call("create_page", content, <<"False">>)>>)
      [] OTHER ->
           Raises(<<"boom">>, <<Call("create_page", content, <<"raise">>)>>)

dispatch_email(argsKind, args, env, self_current_intel) ==
  IF argsKind = "null" THEN Raises(NoneTypeMsg, <<>>)
  ELSE LET content == _integrity_check(args.content, self_current_intel) IN
    CASE env.email = "true" ->
           Returns(<<"Email OK">>, <<Call("send_email", content, <<"True">>)>>)
      [] env.email = "false" ->
           Returns(<<"Email Error">>, <<Call("send_email", content, <<"False">>)>>)
      [] OTHER ->
           Raises(<<"boom">>, <<Call("send_email", content, <<"raise">>)>>)

\* The body of the try block of execute_tool.
tool_branches(tool, argsKind, args, env, self_current_intel) ==
  CASE tool = "web_research" -> web_research(argsKind, args, env)
    [] tool = "web_search" -> web_search(argsKind, args, env)
    [] tool = "save_to_notion" -> save_to_notion(argsKind, args, env, self_current_intel)
    [] tool = "dispatch_email" -> dispatch_email(argsKind, args, env, self_current_intel)
    [] OTHER -> Returns(<<"Error: Tool '", tool, "' not found.">>, <<>>)

\* Mutant: no except clause; an exception of a tool branch leaves execute_tool.
execute_tool_uncaught(tool, argsKind, args, env, self_current_intel) ==
  tool_branches(tool, argsKind, args, env, self_current_intel)

\* execute_tool: the try block, and `except Exception as e:
\* return f"Tool Failure: {str(e)}"` around it.
execute_tool(tool, argsKind, args, env, self_current_intel) ==
  LET r == tool_branches(tool, argsKind, args, env, self_current_intel) IN
  IF r.raised THEN Returns(ToolFailure(r.exc), r.calls) ELSE r

(* ------------------------------------------------------------------ *)
(* AgentService.process_mission, one run through the /execute endpoint *)
(* ------------------------------------------------------------------ *)
VARIABLES
  pc,             \* where the run is: idle, planning, gather, synth, persist,
                  \* disseminate, done
  llm_attempt,    \* inside generate: the loop variable attempt
  llm_sleeps,     \* inside generate: the time.sleep arguments so far
  status,         \* running, complete (the record was returned), failed (an
                  \* exception left process_mission: the router answers HTTP 500)
  abort_at,       \* the place an exception left process_mission from, or "none"
  plan,           \* the decoded plan (its step objects are mutated in place)
  idx,            \* the plan position of the step the current loop handled last
  current_intel,  \* self.current_intel
  logs,           \* the local list logs
  returned,       \* the record handed back to the caller
  has_db,         \* whether self.db is set
  doc_store,      \* documents ingested into the vector store by this run
  sql_rows,       \* MissionLog rows committed by this run
  dispatched,     \* history: plan positions handed to execute_tool, in order
  calls,          \* history: every capability call made, in order
  gw,             \* one direct execute_tool invocation: its inputs and result
  sc,             \* one direct scrape_web call: its position, clock and handles
  conc,           \* concurrent /execute requests: each run's locals, each service
                  \* instance's current_intel, and the stores they share
  gq              \* one direct GroqClient.generate call: its loop variable, the
                  \* HTTP requests it made and how it ended

vars == <<pc, llm_attempt, llm_sleeps, status, abort_at, plan, idx, current_intel, logs, returned, has_db,
          doc_store, sql_rows, dispatched, calls, gw, sc, conc, gq>>

NoRecord == [status |-> "none", report |-> <<>>, trace |-> <<>>]
NoInvocation ==
  [pc |-> "none", tool |-> "", argsKind |-> "map", args |-> NoArgs,
   env |-> [validate |-> "valid", scrape |-> <<>>, ddgs |-> "hits", notion |-> "true", email |-> "true"],
   intel |-> <<>>, r |-> Returns(<<>>, <<>>)]

\* No direct generate call under way.
NoGenerate == [pc |-> "none", attempt |-> 0, posts |-> <<>>, out |-> <<>>]

\* No /execute request under way.
NoRequests == [runs |-> <<>>, intel |-> <<>>, docs |-> <<>>, rows |-> <<>>]

\* No scrape_web call under way.
NoScrape ==
  [pc |-> "none", setting |-> 0, clock |-> 0, fired |-> FALSE, engine |-> "none",
   browser |-> "none", context |-> "none",
   pend |-> [kind |-> "none", text |-> <<>>, pw |-> FALSE],
   clean_text |-> <<>>, ingested |-> <<>>, ingest_out |-> "none", result |-> <<>>]

\* The state after AgentService.__init__.
Constructed ==
  /\ pc = "idle"
  /\ llm_attempt = 0
  /\ llm_sleeps = <<>>
  /\ status = "running"
  /\ abort_at = "none"
  /\ plan = <<>>
  /\ idx = 0
  /\ current_intel = <<>>
  /\ logs = <<>>
  /\ returned = NoRecord
  /\ has_db = TRUE
  /\ doc_store = <<>>
  /\ sql_rows = <<>>
  /\ dispatched = <<>>
  /\ calls = <<>>

Init == Constructed /\ gw = NoInvocation /\ sc = NoScrape /\ conc = NoRequests /\ gq = NoGenerate

\* Mutant: the loop runs over the whole plan, without the tool filter.
NextIdxUnfiltered(p, from, class) ==
  IF from + 1 \in DOMAIN p THEN from + 1 ELSE 0

\* Mutant: the loop takes the last matching step first, skipping the others.
NextIdxLast(p, from, class) ==
  LET later == {i \in DOMAIN p : i > from /\ p[i].tool \in class}
  IN IF later = {} THEN 0 ELSE CHOOSE i \in later : \A j \in later : i >= j

\* The first position after `from` whose tool is in `class`, 0 when there is
\* none: the next element of [s for s in plan if s.get('tool') in class].
NextIdx(p, from, class) ==
  LET later == {i \in DOMAIN p : i > from /\ p[i].tool \in class}
  IN IF later = {} THEN 0 ELSE CHOOSE i \in later : \A j \in later : i <= j

\* The exception is swallowed where it is caught: the run stops without an
\* outcome.
AbortWithoutOutcome(where) ==
  /\ pc' = "done"
  /\ status' = status
  /\ abort_at' = where

\* An exception leaves process_mission: execute_mission logs it and raises
\* HTTPException(500); nothing is returned.
Abort(where) ==
  /\ pc' = "done"
  /\ status' = "failed"
  /\ abort_at' = where

\* process_mission is entered and generate_plan starts the model call.
StartMission ==
  /\ pc = "idle"
  /\ pc' = "planning"
  /\ llm_attempt' = 0
  /\ llm_sleeps' = <<>>
  /\ UNCHANGED <<status, abort_at, plan, idx, current_intel, logs, returned, has_db,
                 doc_store, sql_rows, dispatched, calls>>

\* generate leaves its loop: the local variables are gone.
LlmDone ==
  /\ llm_attempt' = 0
  /\ llm_sleeps' = <<>>

LlmContinue(a) ==
  /\ llm_attempt' = llm_attempt + 1
  /\ llm_sleeps' = Append(llm_sleeps, a.sleep)

\* One HTTP attempt of the planning call; when generate returns:
\* plan = the parsed array or []; self.current_intel = ""; logs = []
PlanAttempt ==
  /\ pc = "planning"
  /\ \E kind \in AttemptKinds, answer \in PlanAnswers :
       LET a == generate_attempt(llm_attempt, kind, answer) IN
       CASE a.exit = "continue" ->
              /\ LlmContinue(a)
              /\ UNCHANGED <<pc, status, abort_at, plan, current_intel, logs, calls>>
         [] a.exit = "raise" ->
              /\ LlmDone
              /\ Abort("planning")
              /\ calls' = Append(calls, Call("generate", <<"CLOUD_AGENT_PROMPT">>, <<"raise">>))
              /\ UNCHANGED <<plan, current_intel, logs>>
         [] OTHER ->
              /\ LlmDone
              /\ calls' = Append(calls, Call("generate", <<"CLOUD_AGENT_PROMPT">>, a.answer.text))
              /\ plan' = generate_plan(a.answer)
              /\ current_intel' = <<>>
              /\ logs' = <<>>
              /\ pc' = "gather"
              /\ UNCHANGED <<status, abort_at>>
  /\ idx' = 0
  /\ UNCHANGED <<returned, has_db, doc_store, sql_rows, dispatched>>

\* One iteration of the gather loop (lines 157-160).
GatherStep ==
  /\ pc = "gather"
  /\ LET i == NextIdx(plan, idx, GatherTools) IN
     /\ i # 0
     /\ idx' = i
     /\ IF plan[i].argsKind = "absent"
        THEN \* step['args'] raises KeyError before the gateway is entered
             /\ Abort("gather_step")
             /\ UNCHANGED <<current_intel, logs, dispatched, calls>>
        ELSE \E env \in Envs(plan[i].tool) :
             LET r == execute_tool(plan[i].tool, plan[i].argsKind, plan[i].args, env, current_intel) IN
             /\ dispatched' = Append(dispatched, i)
             /\ calls' = Append(calls, Call("execute_tool", <<plan[i].tool>>, r.res)) \o r.calls
             /\ IF r.raised
                THEN \* an exception that execute_tool lets through ends the run
                     /\ Abort("gateway")
                     /\ UNCHANGED <<current_intel, logs>>
                ELSE /\ current_intel' = current_intel \o <<"\n---\n">> \o r.res \o <<"\n">>
                     /\ logs' = Append(logs, [tool |-> plan[i].tool, key |-> "status",
                                              text |-> <<"Gathered">>])
                     /\ UNCHANGED <<pc, status, abort_at>>
  /\ UNCHANGED <<llm_attempt, llm_sleeps, plan, returned, has_db, doc_store, sql_rows>>

\* The gather loop is exhausted: the synthesis call starts.
StartSynthesis ==
  /\ pc = "gather"
  /\ NextIdx(plan, idx, GatherTools) = 0
  /\ pc' = "synth"
  /\ llm_attempt' = 0
  /\ llm_sleeps' = <<>>
  /\ UNCHANGED <<status, abort_at, plan, idx, current_intel, logs, returned, has_db,
                 doc_store, sql_rows, dispatched, calls>>

\* One HTTP attempt of the synthesis call; when generate returns:
\* self.current_intel = the text it returned
SynthAttempt ==
  /\ pc = "synth"
  /\ \E kind \in AttemptKinds, answer \in ReportAnswers :
       LET a == generate_attempt(llm_attempt, kind, answer)
           prompt == <<"REPORT_SYNTHESIS_PROMPT">> \o current_intel
       IN
       CASE a.exit = "continue" ->
              /\ LlmContinue(a)
              /\ UNCHANGED <<pc, status, abort_at, current_intel, calls>>
         [] a.exit = "raise" ->
              /\ LlmDone
              /\ Abort("synthesis")
              /\ calls' = Append(calls, Call("generate", prompt, <<"raise">>))
              /\ UNCHANGED current_intel
         [] OTHER ->
              /\ LlmDone
              /\ calls' = Append(calls, Call("generate", prompt, a.answer.text))
              /\ current_intel' = a.answer.text
              /\ pc' = "persist"
              /\ UNCHANGED <<status, abort_at>>
  /\ UNCHANGED <<plan, idx, logs, returned, has_db, doc_store, sql_rows, dispatched>>

\* Mutant: the except clause of _persist_to_memory lets the exception out.
persist_reraise(failed) == IF failed THEN "done" ELSE "disseminate"

\* Where process_mission stands after _persist_to_memory: its except clause
\* (lines 101-102) logs and returns, so the disseminate loop is next.
persist_except(failed) == "disseminate"

\* self._persist_to_memory(self.current_intel, mission_id): one try block
\* around both writes; the except clause logs and returns.
_persist_to_memory ==
  /\ pc = "persist"
  /\ \E ingest \in {"ok", "raise"}, commit \in {"ok", "raise"} :
       /\ IF ingest = "raise"
          THEN /\ calls' = Append(calls, Call("ingest_document", current_intel, <<"raise">>))
               /\ UNCHANGED <<doc_store, sql_rows>>
          ELSE /\ doc_store' = Append(doc_store, current_intel)
               /\ IF has_db
                  THEN /\ calls' = calls \o <<Call("ingest_document", current_intel, <<"ok">>),
                                              Call("db_commit", current_intel, <<commit>>)>>
                       /\ sql_rows' = IF commit = "ok"
                                      THEN Append(sql_rows, [response |-> current_intel, status |-> "COMPLETED"])
                                      ELSE sql_rows
                  ELSE /\ calls' = Append(calls, Call("ingest_document", current_intel, <<"ok">>))
                       /\ UNCHANGED sql_rows
       /\ pc' = persist_except(ingest = "raise" \/ (has_db /\ commit = "raise"))
  /\ idx' = 0
  /\ UNCHANGED <<llm_attempt, llm_sleeps, status, abort_at, plan, current_intel, logs, returned,
                 has_db, dispatched>>

\* One iteration of the disseminate loop (lines 170-173).
DisseminateStep ==
  /\ pc = "disseminate"
  /\ LET i == NextIdx(plan, idx, DisseminateTools) IN
     /\ i # 0
     /\ idx' = i
     /\ IF plan[i].argsKind # "map"
        THEN \* step['args']['content'] = ... raises KeyError (no args) or
             \* TypeError (args is null)
             /\ Abort("disseminate_step")
             /\ UNCHANGED <<plan, logs, dispatched, calls>>
        ELSE \E env \in Envs(plan[i].tool) :
             LET args == [plan[i].args EXCEPT !.content = current_intel]
                 r == execute_tool(plan[i].tool, plan[i].argsKind, args, env, current_intel)
             IN
             /\ plan' = [plan EXCEPT ![i].args = args]
             /\ dispatched' = Append(dispatched, i)
             /\ calls' = Append(calls, Call("execute_tool", <<plan[i].tool>>, r.res)) \o r.calls
             /\ IF r.raised
                THEN /\ Abort("gateway")
                     /\ UNCHANGED logs
                ELSE /\ logs' = Append(logs, [tool |-> plan[i].tool, key |-> "result", text |-> r.res])
                     /\ UNCHANGED <<pc, status, abort_at>>
  /\ UNCHANGED <<llm_attempt, llm_sleeps, current_intel, returned, has_db, doc_store, sql_rows>>

\* return {"status": "complete", "mission_id": ..., "report": ..., "trace": logs}
Finish ==
  /\ pc = "disseminate"
  /\ NextIdx(plan, idx, DisseminateTools) = 0
  /\ pc' = "done"
  /\ status' = "complete"
  /\ returned' = [status |-> "complete", report |-> current_intel, trace |-> logs]
  /\ UNCHANGED <<llm_attempt, llm_sleeps, abort_at, plan, idx, current_intel, logs, has_db,
                 doc_store, sql_rows, dispatched, calls>>

Next ==
  \/ StartMission /\ UNCHANGED <<gw, sc, conc, gq>>
  \/ PlanAttempt /\ UNCHANGED <<gw, sc, conc, gq>>
  \/ GatherStep /\ UNCHANGED <<gw, sc, conc, gq>>
  \/ StartSynthesis /\ UNCHANGED <<gw, sc, conc, gq>>
  \/ SynthAttempt /\ UNCHANGED <<gw, sc, conc, gq>>
  \/ _persist_to_memory /\ UNCHANGED <<gw, sc, conc, gq>>
  \/ DisseminateStep /\ UNCHANGED <<gw, sc, conc, gq>>
  \/ Finish /\ UNCHANGED <<gw, sc, conc, gq>>

Spec == Init /\ [][Next]_vars

\* The event loop keeps running the coroutine of execute_mission, and every
\* call it waits for returns or raises: a step that can be taken is taken.
FairSpec == Spec /\ WF_vars(Next)

(* ------------------------------------------------------------------ *)
(* execute_tool on its own: every tool name, args value and outcome    *)
(* ------------------------------------------------------------------ *)
AllTools == GatherTools \cup DisseminateTools \cup {"crawl_site"}

\* The args values tried for a tool: null, the empty mapping, and mappings
\* with the keys the tool reads.
ArgsFor(tool) ==
  CASE tool = "web_research" -> {[NoArgs EXCEPT !.url = u] : u \in {<<>>, <<GoodUrl>>, <<PaddedUrl>>}}
    [] tool = "web_search" -> {[NoArgs EXCEPT !.query = q] : q \in {<<>>, <<"h100 price">>}}
    [] tool \in DisseminateTools ->
         {[NoArgs EXCEPT !.title = t, !.content = c] :
            t \in {<<>>, <<"H100 pricing">>},
            c \in {<<>>, <<"PLACEHOLDER_CONTENT">>, <<"REPORT_GOOD">>, <<"REPORT_WITH_ERROR_WORD">>}}
    [] OTHER -> {NoArgs}

Invocations ==
  UNION {[pc : {"called"}, tool : {t}, argsKind : {"null", "map"}, args : ArgsFor(t),
          env : EnvsOver(t, ScrapeReturns, DdgsOutcomes),
          intel : {<<>>, <<"REPORT_GOOD">>}, r : {Returns(<<>>, <<>>)}] : t \in AllTools}

GatewayInit == Constructed /\ gw \in Invocations /\ sc = NoScrape /\ conc = NoRequests /\ gq = NoGenerate

\* await self.execute_tool(tool, args)
Invoke ==
  /\ gw.pc = "called"
  /\ LET r == execute_tool(gw.tool, gw.argsKind, gw.args, gw.env, gw.intel)
     IN gw' = [gw EXCEPT !.pc = IF r.raised THEN "raised" ELSE "returned", !.r = r]
  /\ UNCHANGED <<pc, llm_attempt, llm_sleeps, status, abort_at, plan, idx, current_intel, logs,
                 returned, has_db, doc_store, sql_rows, dispatched, calls, sc, conc, gq>>

GatewayNext == Invoke

GatewaySpec == GatewayInit /\ [][GatewayNext]_vars

(* ------------------------------------------------------------------ *)
(* services/scraper_service.py: one call of scrape_web, on a clock     *)
(* ------------------------------------------------------------------ *)
\* Seconds. The literals of the source.
InitTimeout == 10
LaunchTimeout == 15
StealthTimeout == 5
CommitTimeout == 15
SettleSleep == 1
BudgetCap == 30
MinContent == 100

\* The clock stops being advanced past MaxClock.
MaxClock == 60
\* "No such instant": an operation that never completes, a timer that is
\* not armed.
Never == 0 - 1
\* The values of settings.SCRAPER_TIMEOUT tried, and how long the
\* environment takes over one awaited operation.
ScraperTimeoutSettings == {5, 20, 30, 45}
Durations == {0, 1, 5, 15, 30, Never}
PageTexts == {<<"PAGE_LONG">>, <<"PAGE_MID">>, <<"PAGE_TINY">>}

timeout_seconds(setting) == IF setting < BudgetCap THEN setting ELSE BudgetCap

\* Instant a is no later than instant b.
Before(a, b) == a # Never /\ (b = Never \/ a <= b)

\* What ends an await entered at `now` on an operation that takes d, under
\* an own time limit `limit` (Never if it has none), while the outer
\* asyncio.wait_for of scrape_web, armed at instant 0 for `budget`, has or
\* has not fired yet. The earliest instant wins; simultaneous instants may
\* be served in either order. If nothing ever ends it the task waits for
\* ever.
AwaitEvents(now, d, limit, fired, budget) ==
  LET tdone == IF d = Never THEN Never ELSE now + d
      tlimit == IF limit = Never THEN Never ELSE now + limit
      tcancel == IF fired THEN Never ELSE IF budget > now THEN budget ELSE now
      evs == {[ev |-> "done", at |-> tdone], [ev |-> "limit", at |-> tlimit],
              [ev |-> "cancel", at |-> tcancel]}
      live == {e \in evs : e.at # Never /\ \A f \in evs : f.at = Never \/ Before(e.at, f.at)}
  IN IF live = {} THEN {[ev |-> "never", at |-> now]} ELSE live

\* What a synchronous call entered at `now` does: nothing can interrupt it.
SyncEvents(now, d) ==
  IF d = Never THEN {[ev |-> "never", at |-> now]} ELSE {[ev |-> "done", at |-> now + d]}

\* How control leaves a block: a return value on its way out, an exception
\* (pw: a PlaywrightTimeoutError), or the CancelledError of the outer timer.
NoPend == [kind |-> "none", text |-> <<>>, pw |-> FALSE]
Ret(text) == [kind |-> "return", text |-> text, pw |-> FALSE]
Exc(msg) == [kind |-> "exc", text |-> msg, pw |-> FALSE]
PwTimeout == [kind |-> "exc", text |-> <<"Timeout exceeded">>, pw |-> TRUE]
Cancelled == [kind |-> "cancelled", text |-> <<>>, pw |-> FALSE]

\* The except clauses of lines 111-117.
Caught(pend) ==
  IF pend.kind # "exc" THEN pend
  ELSE IF pend.pw THEN Ret(<<"Error: Request timed out">>)
  ELSE Ret(<<"Error: ">> \o pend.text)

\* scrape_web, lines 136-148: what the caller gets once the inner task ended.
ScrapeResult(pend) ==
  CASE pend.kind = "return" -> pend.text
    [] pend.kind = "exc" -> <<"Error: ">> \o pend.text
    [] OTHER -> <<"Error: Scrape operation timed out">>

ScrapeCalls == {[NoScrape EXCEPT !.pc = "aenter", !.setting = s] : s \in ScraperTimeoutSettings}
ScrapeInit == Constructed /\ gw = NoInvocation /\ sc \in ScrapeCalls /\ conc = NoRequests /\ gq = NoGenerate

\* The ways the await the call stands at can end, each with its instant.
Happenings(limit, durs) ==
  LET evs == UNION {AwaitEvents(sc.clock, d, limit, sc.fired, timeout_seconds(sc.setting)) : d \in durs}
  IN UNION {{[ev |-> x, at |-> e.at] : x \in IF e.ev = "done" THEN {"ok", "raise"} ELSE {e.ev}} :
              e \in {f \in evs : f.at \in 0..MaxClock}}
SyncHappenings(durs) ==
  LET evs == UNION {SyncEvents(sc.clock, d) : d \in durs}
  IN UNION {{[ev |-> x, at |-> e.at] : x \in IF e.ev = "done" THEN {"ok", "raise"} ELSE {e.ev}} :
              e \in {f \in evs : f.at \in 0..MaxClock}}

At(h, pos) == [sc EXCEPT !.pc = pos, !.clock = h.at, !.fired = @ \/ h.ev = "cancel"]
Leave(s, pend, pos) == [s EXCEPT !.pc = pos, !.pend = pend]
Return(s, pend) == [s EXCEPT !.pc = "returned", !.pend = pend, !.result = ScrapeResult(pend)]
Hang(h) == h.ev = "never" /\ sc' = At(h, "stuck")

\* What a completed release call has released. Stopping the engine ends the
\* browser it drives; closing the browser closes its contexts.
ContextClosed(s) == [s EXCEPT !.context = "closed"]
BrowserClosed(s) ==
  [s EXCEPT !.browser = "closed", !.context = IF @ = "open" THEN "closed" ELSE @]
Released(s) ==
  [s EXCEPT !.engine = "closed", !.browser = IF @ = "open" THEN "closed" ELSE @,
            !.context = IF @ = "open" THEN "closed" ELSE @]

Truncate(t, n) == IF TextLen(t) <= n THEN t ELSE <<"FIRST_CHARS_OF">> \o t

\* Lines 21-28: p = await asyncio.wait_for(playwright_manager.__aenter__(), 10.0).
\* A startup that is cut short may or may not have left the engine running.
playwright_aenter ==
  /\ sc.pc = "aenter"
  /\ \E h \in Happenings(InitTimeout, Durations) :
       \/ h.ev = "ok" /\ sc' = [At(h, "launch") EXCEPT !.engine = "open"]
       \/ h.ev = "raise"
          /\ sc' = Return(At(h, "aenter"), Ret(<<"Error: Failed to initialize browser - ", "boom">>))
       \/ h.ev = "limit"
          /\ \E got \in {"none", "open"} :
               sc' = Return([At(h, "aenter") EXCEPT !.engine = got],
                            Ret(<<"Error: Browser initialization timed out">>))
       \/ h.ev = "cancel"
          /\ \E got \in {"none", "open"} :
               sc' = Return([At(h, "aenter") EXCEPT !.engine = got], Cancelled)

\* Lines 32-60: browser = await asyncio.wait_for(p.chromium.launch(...), 15.0).
chromium_launch ==
  /\ sc.pc = "launch"
  /\ \E h \in Happenings(LaunchTimeout, Durations) :
       \/ h.ev = "ok" /\ sc' = [At(h, "new_context") EXCEPT !.browser = "open"]
       \/ h.ev = "raise"
          /\ sc' = Leave(At(h, "launch"), Ret(<<"Error: Browser launch failed - ", "boom">>),
                         "handler_aexit")
       \/ h.ev = "limit"
          /\ \E got \in {"none", "open"} :
               sc' = Leave([At(h, "launch") EXCEPT !.browser = got],
                           Ret(<<"Error: Browser launch timed out">>), "handler_aexit")
       \/ h.ev = "cancel"
          /\ \E got \in {"none", "open"} :
               sc' = Leave([At(h, "launch") EXCEPT !.browser = got], Cancelled, "final_aexit")

\* Lines 55 and 59: await playwright_manager.__aexit__(None, None, None)
\* inside the except clauses of the launch.
launch_handler_aexit ==
  /\ sc.pc = "handler_aexit"
  /\ \E h \in Happenings(Never, Durations) :
       \/ h.ev = "ok" /\ sc' = Released(At(h, "final_aexit"))
       \/ h.ev = "raise" /\ sc' = Leave(Released(At(h, "")), Exc(<<"boom">>), "final_aexit")
       \/ h.ev = "cancel"
          /\ \E done \in BOOLEAN :
               sc' = Leave(IF done THEN Released(At(h, "")) ELSE At(h, ""), Cancelled, "final_aexit")
       \/ Hang(h)

\* Lines 63-67: context = await browser.new_context(...).
new_context ==
  /\ sc.pc = "new_context"
  /\ \E h \in Happenings(Never, Durations) :
       \/ h.ev = "ok" /\ sc' = [At(h, "new_page") EXCEPT !.context = "open"]
       \/ h.ev = "raise" /\ sc' = Leave(At(h, ""), Caught(Exc(<<"boom">>)), "browser_close")
       \/ h.ev = "cancel"
          /\ \E got \in {"none", "open"} :
               sc' = Leave([At(h, "") EXCEPT !.context = got], Cancelled, "browser_close")
       \/ Hang(h)

\* Lines 70-71: page = await context.new_page().
new_page ==
  /\ sc.pc = "new_page"
  /\ \E h \in Happenings(Never, Durations) :
       \/ h.ev = "ok" /\ sc' = At(h, "stealth")
       \/ h.ev = "raise" /\ sc' = Leave(At(h, ""), Exc(<<"boom">>), "context_close")
       \/ h.ev = "cancel" /\ sc' = Leave(At(h, ""), Cancelled, "context_close")
       \/ Hang(h)

\* Lines 74-77: await asyncio.wait_for(stealth_async(page), timeout=5).
stealth_async ==
  /\ sc.pc = "stealth"
  /\ \E h \in Happenings(StealthTimeout, Durations) :
       \/ h.ev \in {"ok", "limit"} /\ sc' = At(h, "goto1")
       \/ h.ev = "raise" /\ sc' = Leave(At(h, ""), Exc(<<"boom">>), "context_close")
       \/ h.ev = "cancel" /\ sc' = Leave(At(h, ""), Cancelled, "context_close")

\* Lines 82-85: await page.goto(url, wait_until="domcontentloaded",
\* timeout=timeout_ms).
goto_domcontentloaded ==
  /\ sc.pc = "goto1"
  /\ \E h \in Happenings(timeout_seconds(sc.setting), Durations) :
       \/ h.ev = "ok" /\ sc' = At(h, "sleep1")
       \/ h.ev = "limit" /\ sc' = At(h, "goto2")
       \/ h.ev = "raise" /\ sc' = Leave(At(h, ""), Exc(<<"boom">>), "context_close")
       \/ h.ev = "cancel" /\ sc' = Leave(At(h, ""), Cancelled, "context_close")

\* Lines 86-90: await page.goto(url, wait_until="commit", timeout=15000).
goto_commit ==
  /\ sc.pc = "goto2"
  /\ \E h \in Happenings(CommitTimeout, Durations) :
       \/ h.ev = "ok" /\ sc' = At(h, "sleep1")
       \/ h.ev = "limit"
          /\ sc' = Leave(At(h, ""), Ret(<<"Error: Page navigation timed out">>), "context_close")
       \/ h.ev = "raise" /\ sc' = Leave(At(h, ""), Exc(<<"boom">>), "context_close")
       \/ h.ev = "cancel" /\ sc' = Leave(At(h, ""), Cancelled, "context_close")

\* Lines 93-95: await asyncio.sleep(1); await page.mouse.wheel(0, 500);
\* await asyncio.sleep(1).
settle ==
  /\ sc.pc \in {"sleep1", "wheel", "sleep2"}
  /\ LET next == CASE sc.pc = "sleep1" -> "wheel" [] sc.pc = "wheel" -> "sleep2"
                   [] OTHER -> "inner_text"
         hs == IF sc.pc = "wheel" THEN Happenings(Never, Durations)
               ELSE {h \in Happenings(Never, {SettleSleep}) : h.ev # "raise"}
     IN \E h \in hs :
          \/ h.ev = "ok" /\ sc' = At(h, next)
          \/ h.ev = "raise" /\ sc' = Leave(At(h, ""), Exc(<<"boom">>), "context_close")
          \/ h.ev = "cancel" /\ sc' = Leave(At(h, ""), Cancelled, "context_close")
          \/ Hang(h)

\* Lines 98-103: raw_text = await page.inner_text("body") under the page's
\* default timeout, then the length test on clean_text.
inner_text ==
  /\ sc.pc = "inner_text"
  /\ \E h \in Happenings(timeout_seconds(sc.setting), Durations) :
       \/ h.ev = "ok"
          /\ \E t \in PageTexts :
               sc' = IF TextLen(t) < MinContent
                     THEN Leave(At(h, ""),
                                Ret(<<"Error: Page loaded but very little content extracted">>),
                                "context_close")
                     ELSE [At(h, "ingest") EXCEPT !.clean_text = t]
       \/ h.ev = "limit" /\ sc' = Leave(At(h, ""), PwTimeout, "context_close")
       \/ h.ev = "raise" /\ sc' = Leave(At(h, ""), Exc(<<"boom">>), "context_close")
       \/ h.ev = "cancel" /\ sc' = Leave(At(h, ""), Cancelled, "context_close")

\* Lines 105-107: ingest_document(f"Scrape: {url}", clean_text[:5000],
\* conversation_id), a plain call: the task keeps the thread until it is
\* over, so no timer is served meanwhile. Then return clean_text.
ingest_document ==
  /\ sc.pc = "ingest"
  /\ \E h \in SyncHappenings(Durations) :
       \/ h.ev = "ok"
          /\ sc' = Leave([At(h, "") EXCEPT !.ingested = Truncate(sc.clean_text, 5000),
                                           !.ingest_out = "ok"],
                         Ret(sc.clean_text), "context_close")
       \/ h.ev = "raise"
          /\ sc' = Leave([At(h, "") EXCEPT !.ingest_out = "raise"], Exc(<<"store down">>),
                         "context_close")
       \/ Hang(h)

\* Lines 109-117: finally: await context.close(), then the except clauses
\* of the enclosing try. A close that is cut short may or may not have
\* closed the context.
context_close ==
  /\ sc.pc = "context_close"
  /\ \E h \in Happenings(Never, Durations) :
       \/ h.ev = "ok" /\ sc' = Leave(ContextClosed(At(h, "")), Caught(sc.pend), "browser_close")
       \/ h.ev = "raise"
          /\ sc' = Leave(ContextClosed(At(h, "")), Caught(Exc(<<"boom">>)), "browser_close")
       \/ h.ev = "cancel"
          /\ \E done \in BOOLEAN :
               sc' = Leave(IF done THEN ContextClosed(At(h, "")) ELSE At(h, ""), Cancelled,
                           "browser_close")
       \/ Hang(h)

\* Lines 118-122: finally: try: await browser.close() except: pass. The
\* bare except also takes the CancelledError of the outer timer.
browser_close ==
  /\ sc.pc = "browser_close"
  /\ \E h \in Happenings(Never, Durations) :
       \/ h.ev \in {"ok", "raise"} /\ sc' = BrowserClosed(At(h, "final_aexit"))
       \/ h.ev = "cancel"
          /\ \E done \in BOOLEAN :
               sc' = IF done THEN BrowserClosed(At(h, "final_aexit")) ELSE At(h, "final_aexit")
       \/ Hang(h)

\* Lines 123-127: finally: try: await playwright_manager.__aexit__(...)
\* except: pass; the inner task then ends with what was on its way out and
\* scrape_web (lines 136-148) hands its caller a text.
final_aexit ==
  /\ sc.pc = "final_aexit"
  /\ \E h \in Happenings(Never, Durations) :
       \/ h.ev \in {"ok", "raise"} /\ sc' = Return(Released(At(h, "")), sc.pend)
       \/ h.ev = "cancel"
          /\ \E done \in BOOLEAN :
               sc' = Return(IF done THEN Released(At(h, "")) ELSE At(h, ""), sc.pend)
       \/ Hang(h)

agent_vars ==
  <<pc, llm_attempt, llm_sleeps, status, abort_at, plan, idx, current_intel, logs, returned,
    has_db, doc_store, sql_rows, dispatched, calls>>

ScrapeNext ==
  \/ playwright_aenter /\ UNCHANGED <<agent_vars, gw, conc, gq>>
  \/ chromium_launch /\ UNCHANGED <<agent_vars, gw, conc, gq>>
  \/ launch_handler_aexit /\ UNCHANGED <<agent_vars, gw, conc, gq>>
  \/ new_context /\ UNCHANGED <<agent_vars, gw, conc, gq>>
  \/ new_page /\ UNCHANGED <<agent_vars, gw, conc, gq>>
  \/ stealth_async /\ UNCHANGED <<agent_vars, gw, conc, gq>>
  \/ goto_domcontentloaded /\ UNCHANGED <<agent_vars, gw, conc, gq>>
  \/ goto_commit /\ UNCHANGED <<agent_vars, gw, conc, gq>>
  \/ settle /\ UNCHANGED <<agent_vars, gw, conc, gq>>
  \/ inner_text /\ UNCHANGED <<agent_vars, gw, conc, gq>>
  \/ ingest_document /\ UNCHANGED <<agent_vars, gw, conc, gq>>
  \/ context_close /\ UNCHANGED <<agent_vars, gw, conc, gq>>
  \/ browser_close /\ UNCHANGED <<agent_vars, gw, conc, gq>>
  \/ final_aexit /\ UNCHANGED <<agent_vars, gw, conc, gq>>

ScrapeSpec == ScrapeInit /\ [][ScrapeNext]_vars

(* ------------------------------------------------------------------ *)
(* One direct _integrity_check call                                    *)
(* ------------------------------------------------------------------ *)
GateAtoms ==
  {"TEXT_1", "TEXT_49", "TEXT_50", "REPORT_GOOD", "REPORT_WITH_ERROR_WORD", "NOTE_PLACEHOLDER",
   "NOTE_INSERT_HERE", "NOTE_NO_DATA", "Search error: "}
\* The candidates tried: the empty text, one atom, two atoms.
GateCandidates ==
  {<<>>} \cup {<<a>> : a \in GateAtoms} \cup {<<a, b>> : a \in GateAtoms, b \in GateAtoms}
GateCalls ==
  {[NoInvocation EXCEPT !.pc = "gate", !.tool = "_integrity_check",
                        !.args = [NoArgs EXCEPT !.content = c], !.intel = f] :
     c \in GateCandidates, f \in {<<>>, <<"PAGE_LONG">>}}

GateInit == Constructed /\ gw \in GateCalls /\ sc = NoScrape /\ conc = NoRequests /\ gq = NoGenerate

\* self._integrity_check(content)
IntegrityCheck ==
  /\ gw.pc = "gate"
  /\ gw' = [gw EXCEPT !.pc = "checked",
                      !.r = Returns(_integrity_check(gw.args.content, gw.intel), <<>>)]
  /\ UNCHANGED <<agent_vars, sc, conc, gq>>

GateNext == IntegrityCheck

GateSpec == GateInit /\ [][GateNext]_vars

(* ------------------------------------------------------------------ *)
(* routers/agent.py: concurrent /execute requests on one event loop    *)
(* ------------------------------------------------------------------ *)
\* The plans the concurrent runs are given hold at most MaxConcPlanLen steps.
MaxConcPlanLen == 2
Requests == {1, 2}

\* Mutant: one module-level AgentService serves every request.
ServiceShared(req) == 1

\* agent = AgentService(db) inside execute_mission: the instance a request
\* works with is its own.
ServiceOf(req) == req

ConcSteps ==
  {[tool |-> "web_search", argsKind |-> "map", args |-> [NoArgs EXCEPT !.query = <<"h100 price">>]],
   [tool |-> "save_to_notion", argsKind |-> "map",
    args |-> [NoArgs EXCEPT !.title = <<"H100 pricing">>, !.content = <<"PLACEHOLDER_CONTENT">>]]}
ConcPlanAnswers ==
  {[text |-> <<"PLAN_PROSE">>, array |-> "none", steps |-> <<>>]}
  \cup {[text |-> <<"PLAN_JSON">>, array |-> "valid", steps |-> p] :
          p \in UNION {[1..n -> ConcSteps] : n \in 0..MaxConcPlanLen}}
\* The capability outcomes tried in the concurrent runs: a search answers
\* or fails, an archive call succeeds or raises.
ConcEnvs(tool) ==
  {e \in EnvsOver(tool, {<<"PAGE_LONG">>}, {"hits", "raise"}) : e.notion # "false"}

\* The locals of one process_mission call, with the history of its own
\* model calls and gateway invocations.
NewRun ==
  [pc |-> "idle", status |-> "running", plan |-> <<>>, planned |-> <<>>, idx |-> 0,
   logs |-> <<>>, prompt |-> <<>>, returned |-> NoRecord, hist |-> <<>>]
ConcInit ==
  /\ Constructed /\ gw = NoInvocation /\ sc = NoScrape /\ gq = NoGenerate
  /\ conc = [runs |-> [req \in Requests |-> NewRun], intel |-> [req \in Requests |-> <<>>],
             docs |-> <<>>, rows |-> <<>>]

\* _persist_to_memory is a plain call at line 168: from the return of the
\* synthesis call until both writes are over the run keeps the event loop.
HoldsLoop(req) == conc.runs[req].pc = "persist"
\* A coroutine is resumed only when no other one is running.
LoopFree(req) == \A q \in Requests \ {req} : ~HoldsLoop(q)

Self(req) == conc.intel[ServiceOf(req)]
SetRun(c, req, run) == [c EXCEPT !.runs[req] = run]
SetSelf(c, req, text) == [c EXCEPT !.intel[ServiceOf(req)] = text]

\* execute_mission, lines 45-47: the service is constructed and
\* process_mission runs up to the planning call.
execute_mission(req) ==
  /\ conc.runs[req].pc = "idle"
  /\ LoopFree(req)
  /\ conc' = SetSelf(SetRun(conc, req, [conc.runs[req] EXCEPT !.pc = "planning"]), req, <<>>)

\* Lines 153-155: the planning call is back.
PlanReturn(req) ==
  /\ conc.runs[req].pc = "planning"
  /\ LoopFree(req)
  /\ LET run == conc.runs[req] IN
     \/ conc' = SetRun(conc, req,
                  [run EXCEPT !.pc = "done", !.status = "failed",
                              !.hist = Append(@, Call("generate", <<"CLOUD_AGENT_PROMPT">>, <<"raise">>))])
     \/ \E answer \in ConcPlanAnswers :
          conc' = SetSelf(SetRun(conc, req,
                    [run EXCEPT !.pc = "gather", !.plan = generate_plan(answer),
                                !.planned = generate_plan(answer), !.idx = 0, !.logs = <<>>,
                                !.hist = Append(@, Call("generate", <<"CLOUD_AGENT_PROMPT">>, answer.text))]),
                    req, <<>>)

\* Lines 157-160: the gateway call of the next gather step is back.
GatherReturn(req) ==
  /\ conc.runs[req].pc = "gather"
  /\ LoopFree(req)
  /\ LET run == conc.runs[req]
         i == NextIdx(run.plan, run.idx, GatherTools)
     IN /\ i # 0
        /\ \E env \in ConcEnvs(run.plan[i].tool) :
             LET r == execute_tool(run.plan[i].tool, run.plan[i].argsKind, run.plan[i].args, env,
                                   Self(req))
             IN conc' = SetSelf(SetRun(conc, req,
                          [run EXCEPT !.idx = i,
                                      !.logs = Append(@, [tool |-> run.plan[i].tool, key |-> "status",
                                                          text |-> <<"Gathered">>]),
                                      !.hist = Append(@, Call("execute_tool", <<run.plan[i].tool>>, r.res))]),
                          req, Self(req) \o <<"\n---\n">> \o r.res \o <<"\n">>)

\* Lines 162-167: the prompt is formatted from self.current_intel and the
\* synthesis call is handed to the executor.
SynthCall(req) ==
  /\ conc.runs[req].pc = "gather"
  /\ LoopFree(req)
  /\ LET run == conc.runs[req] IN
     /\ NextIdx(run.plan, run.idx, GatherTools) = 0
     /\ conc' = SetRun(conc, req, [run EXCEPT !.pc = "synth",
                                              !.prompt = <<"REPORT_SYNTHESIS_PROMPT">> \o Self(req)])

\* Line 163: the synthesis call is back; self.current_intel = its answer.
SynthReturn(req) ==
  /\ conc.runs[req].pc = "synth"
  /\ LoopFree(req)
  /\ LET run == conc.runs[req] IN
     \/ conc' = SetRun(conc, req,
                  [run EXCEPT !.pc = "done", !.status = "failed",
                              !.hist = Append(@, Call("generate", run.prompt, <<"raise">>))])
     \/ \E answer \in ReportAnswers :
          conc' = SetSelf(SetRun(conc, req,
                    [run EXCEPT !.pc = "persist",
                                !.hist = Append(@, Call("generate", run.prompt, answer.text))]),
                    req, answer.text)

\* Line 168: self._persist_to_memory(self.current_intel, mission_id), on
\* the event loop, into the stores all requests share (both writes succeed
\* here; their failures are followed in the single run).
PersistWrites(req) ==
  /\ conc.runs[req].pc = "persist"
  /\ LET run == conc.runs[req]
         c1 == SetRun(conc, req, [run EXCEPT !.pc = persist_except(FALSE), !.idx = 0])
     IN conc' = [c1 EXCEPT !.docs = Append(@, Self(req)),
                           !.rows = Append(@, [response |-> Self(req), status |-> "COMPLETED"])]

\* Lines 170-173: one disseminate step.
DisseminateReturn(req) ==
  /\ conc.runs[req].pc = "disseminate"
  /\ LoopFree(req)
  /\ LET run == conc.runs[req]
         i == NextIdx(run.plan, run.idx, DisseminateTools)
     IN /\ i # 0
        /\ \E env \in ConcEnvs(run.plan[i].tool) :
             LET args == [run.plan[i].args EXCEPT !.content = Self(req)]
                 r == execute_tool(run.plan[i].tool, run.plan[i].argsKind, args, env, Self(req))
             IN conc' = SetRun(conc, req,
                          [run EXCEPT !.idx = i, !.plan[i].args = args,
                                      !.logs = Append(@, [tool |-> run.plan[i].tool, key |-> "result",
                                                          text |-> r.res]),
                                      !.hist = Append(@, Call("execute_tool", <<run.plan[i].tool>>, r.res))
                                                 \o r.calls])

\* Lines 175-181 and line 48: the record goes back to the caller.
MissionReturn(req) ==
  /\ conc.runs[req].pc = "disseminate"
  /\ LoopFree(req)
  /\ LET run == conc.runs[req] IN
     /\ NextIdx(run.plan, run.idx, DisseminateTools) = 0
     /\ conc' = SetRun(conc, req,
                  [run EXCEPT !.pc = "done", !.status = "complete",
                              !.returned = [status |-> "complete", report |-> Self(req),
                                            trace |-> run.logs]])

RequestStep(req) ==
  \/ execute_mission(req)
  \/ PlanReturn(req)
  \/ GatherReturn(req)
  \/ SynthCall(req)
  \/ SynthReturn(req)
  \/ PersistWrites(req)
  \/ DisseminateReturn(req)
  \/ MissionReturn(req)

ConcNext ==
  \/ \E req \in Requests : execute_mission(req) /\ UNCHANGED <<agent_vars, gw, sc, gq>>
  \/ \E req \in Requests : PlanReturn(req) /\ UNCHANGED <<agent_vars, gw, sc, gq>>
  \/ \E req \in Requests : GatherReturn(req) /\ UNCHANGED <<agent_vars, gw, sc, gq>>
  \/ \E req \in Requests : SynthCall(req) /\ UNCHANGED <<agent_vars, gw, sc, gq>>
  \/ \E req \in Requests : SynthReturn(req) /\ UNCHANGED <<agent_vars, gw, sc, gq>>
  \/ \E req \in Requests : PersistWrites(req) /\ UNCHANGED <<agent_vars, gw, sc, gq>>
  \/ \E req \in Requests : DisseminateReturn(req) /\ UNCHANGED <<agent_vars, gw, sc, gq>>
  \/ \E req \in Requests : MissionReturn(req) /\ UNCHANGED <<agent_vars, gw, sc, gq>>

ConcSpec == ConcInit /\ [][ConcNext]_vars

(* ------------------------------------------------------------------ *)
(* Reading the history of a run                                        *)
(* ------------------------------------------------------------------ *)
IsSynthCall(c) == c.op = "generate" /\ Head(c.arg) = "REPORT_SYNTHESIS_PROMPT"
IsPlanCall(c) == c.op = "generate" /\ Head(c.arg) = "CLOUD_AGENT_PROMPT"
IsDispatch(c, class) == c.op = "execute_tool" /\ Head(c.arg) \in class
SynthIdx == {k \in DOMAIN calls : IsSynthCall(calls[k])}
GatherOps == {"validate_url", "scrape_web", "search"}
DisseminateOps == {"create_page", "send_email"}
PersistOps == {"ingest_document", "db_commit"}

\* The capability calls made inside the gateway invocation logged at k: the
\* positions after k up to the next event that is not a capability call.
Segment(k) ==
  {j \in DOMAIN calls :
     /\ j > k
     /\ \A m \in (k + 1)..j : calls[m].op \in GatherOps \cup DisseminateOps}

\* The pool the gather results recorded in a history add up to.
RECURSIVE PoolOf(_)
PoolOf(cs) ==
  IF cs = <<>> THEN <<>>
  ELSE LET c == cs[Len(cs)]
           before == PoolOf(SubSeq(cs, 1, Len(cs) - 1))
       IN IF IsDispatch(c, GatherTools)
          THEN before \o <<"\n---\n">> \o c.out \o <<"\n">>
          ELSE before

\* The plan positions of one class, in plan order.
RECURSIVE ClassIdx(_, _, _)
ClassIdx(p, i, class) ==
  IF i > Len(p) THEN <<>>
  ELSE (IF p[i].tool \in class THEN <<i>> ELSE <<>>) \o ClassIdx(p, i + 1, class)

IsPrefix(a, b) == Len(a) <= Len(b) /\ SubSeq(b, 1, Len(a)) = a

(* ------------------------------------------------------------------ *)
(* GroqClient.generate on its own: every outcome of every attempt      *)
(* ------------------------------------------------------------------ *)
GroqInit ==
  /\ Constructed /\ gw = NoInvocation /\ sc = NoScrape /\ conc = NoRequests
  /\ gq = [NoGenerate EXCEPT !.pc = "loop"]

\* One iteration of the for-loop: requests.post, then what the answer leads
\* to. posts records the attempt number, what the request did and the
\* time.sleep argument that followed it (0: no sleep).
post ==
  /\ gq.pc = "loop"
  /\ \E kind \in AttemptKinds, answer \in ReportAnswers :
       LET a == generate_attempt(gq.attempt, kind, answer)
           posts == Append(gq.posts, [attempt |-> gq.attempt, kind |-> kind, sleep |-> a.sleep])
       IN gq' = CASE a.exit = "continue" ->
                       [gq EXCEPT !.attempt = gq.attempt + 1, !.posts = posts]
                  [] a.exit = "raise" ->
                       [gq EXCEPT !.pc = "raised", !.posts = posts, !.out = a.detail]
                  [] OTHER ->
                       [gq EXCEPT !.pc = "returned", !.posts = posts, !.out = a.answer.text]
  /\ UNCHANGED <<agent_vars, gw, sc, conc>>

GroqNext == post

GroqSpec == GroqInit /\ [][GroqNext]_vars

(* ------------------------------------------------------------------ *)
(* Claims about the mission run                                        *)
(* ------------------------------------------------------------------ *)

\* C1: when no well-formed plan array can be parsed from the planning
\* response, the run ends FAILED with an empty trace and executes nothing: no
\* gateway invocation, no synthesis call, no persistence write.
UnparsablePlan ==
  /\ Len(calls) >= 1
  /\ IsPlanCall(calls[1])
  /\ calls[1].out \in {<<"PLAN_PROSE">>, <<"PLAN_BROKEN_ARRAY">>}
C1_UnparsablePlanFailsWithoutExecution ==
  UnparsablePlan =>
    /\ Len(calls) = 1
    /\ dispatched = <<>>
    /\ doc_store = <<>> /\ sql_rows = <<>>
    /\ status # "complete"
    /\ (pc = "done" => status = "failed" /\ returned.trace = <<>>)

\* C2: synthesis is called at most once in a run and exactly once in a run
\* that goes on to persistence; every gather-class invocation and capability
\* call comes before it, every persistence write and every disseminate-class
\* invocation after it (whatever the plan order), and it is given the whole
\* pool.
C2_SynthesisOnceBetweenPhases ==
  /\ Cardinality(SynthIdx) <= 1
  /\ (pc \in {"persist", "disseminate"} \/ status = "complete") => Cardinality(SynthIdx) = 1
  /\ SynthIdx = {} =>
       \A j \in DOMAIN calls :
         /\ calls[j].op \notin DisseminateOps \cup PersistOps
         /\ ~IsDispatch(calls[j], DisseminateTools)
  /\ \A k \in SynthIdx :
       /\ calls[k].arg = <<"REPORT_SYNTHESIS_PROMPT">> \o PoolOf(SubSeq(calls, 1, k - 1))
       /\ \A j \in DOMAIN calls :
            /\ (calls[j].op \in GatherOps \/ IsDispatch(calls[j], GatherTools)) => j < k
            /\ (calls[j].op \in DisseminateOps \cup PersistOps
                  \/ IsDispatch(calls[j], DisseminateTools)) => j > k
            /\ IsDispatch(calls[j], DisseminateTools) =>
                 \E m \in k..j : calls[m].op = "ingest_document"
C2_Witness ==
  /\ status = "complete"
  /\ \E i, j \in DOMAIN plan :
       /\ i < j
       /\ plan[i].tool \in DisseminateTools /\ plan[j].tool \in GatherTools
       /\ dispatched = <<j, i>>

\* C3: the content every disseminate-class step hands to its capability is
\* the text the one synthesis call of the run returned, and so is the report
\* field of the returned record.
C3_DisseminatedContentIsReport ==
  /\ \A j \in DOMAIN calls :
       calls[j].op \in DisseminateOps =>
         /\ SynthIdx # {}
         /\ \A k \in SynthIdx : calls[j].arg = calls[k].out
  /\ status = "complete" =>
       /\ SynthIdx # {}
       /\ \A k \in SynthIdx : returned.report = calls[k].out
C3_Witness ==
  /\ status = "complete"
  /\ \E j \in DOMAIN calls :
       calls[j].op = "create_page" /\ calls[j].arg = <<"REPORT_WITH_ERROR_WORD">>
  /\ \E j \in DOMAIN calls :
       calls[j].op = "send_email" /\ calls[j].arg = <<"REPORT_WITH_ERROR_WORD">>

\* C4: the steps handed to the gateway are, in order, the gather steps in
\* plan order followed by the disseminate steps in plan order, each at most
\* once and, in a completed run, each exactly once; a step's trace entry is
\* recorded before the next step is dispatched; one web_research invocation
\* makes at most one scrape and at most one fallback search.
ExpectedDispatch(p) == ClassIdx(p, 1, GatherTools) \o ClassIdx(p, 1, DisseminateTools)
C4_StepsOnceInPlanOrder ==
  /\ IsPrefix(dispatched, ExpectedDispatch(plan))
  /\ status = "complete" => dispatched = ExpectedDispatch(plan)
  /\ Len(logs) = Len(dispatched)
  /\ \A n \in DOMAIN logs : logs[n].tool = plan[dispatched[n]].tool
  /\ Cardinality({k \in DOMAIN calls : calls[k].op = "execute_tool"}) = Len(dispatched)
  /\ \A k \in DOMAIN calls :
       calls[k].op = "execute_tool" =>
         /\ Cardinality({j \in Segment(k) : calls[j].op = "search"}) <= 1
         /\ Cardinality({j \in Segment(k) : calls[j].op = "scrape_web"}) <= 1
C4_Witness ==
  /\ status = "complete"
  /\ Len(dispatched) = 2
  /\ plan[dispatched[1]].tool = "web_research"
  /\ \E j \in DOMAIN calls : calls[j].op = "search" /\ Head(calls[j].arg) = "Latest info from "

\* C5: no outcome of a gather step's gateway invocation aborts the run: the
\* result text is appended to the pool, one trace entry is recorded for the
\* step, the loop goes on, and a run ends FAILED only because the planning or
\* synthesis call failed or a step object is malformed; a web_research step
\* whose fetch timed out contributes the fallback search result.
TimeoutText == <<"Error: Scrape operation timed out">>
C5_GatherOutcomeNeverAborts ==
  /\ abort_at # "gateway"
  /\ status = "failed" =>
       \/ abort_at \in {"planning", "synthesis"}
       \/ abort_at \in {"gather_step", "disseminate_step"} /\ plan[idx].argsKind # "map"
  /\ pc \in {"gather", "synth"} =>
       /\ current_intel = PoolOf(calls)
       /\ Len(logs) = Len(dispatched)
       /\ \A n \in DOMAIN logs :
            logs[n] = [tool |-> plan[dispatched[n]].tool, key |-> "status", text |-> <<"Gathered">>]
  /\ \A k \in DOMAIN calls :
       (calls[k].op = "scrape_web" /\ calls[k].out = TimeoutText) =>
         /\ k + 1 \in DOMAIN calls /\ calls[k + 1].op = "search"
         /\ calls[k - 2].op = "execute_tool" /\ calls[k - 2].out = calls[k + 1].out
C5_Witness ==
  /\ status = "complete"
  /\ Len(dispatched) = 2
  /\ \E k \in DOMAIN calls :
       /\ calls[k].op = "scrape_web" /\ calls[k].out = TimeoutText
       /\ calls[k + 1].out = <<"Search error: ", "boom">>
       /\ \E j \in DOMAIN calls : j > k + 1 /\ calls[j].op = "execute_tool"

\* C10: when the planning or the synthesis model call fails on its final
\* attempt (timeout, HTTP error, empty response, or rate limiting up to the
\* last attempt), the run ends FAILED there: the failure is never used as a
\* plan or as the report and the run does not go on.
LlmCallFailed(c) == c.op = "generate" /\ c.out \in {<<"raise">>, MaxRetriesText}
C10_FinalLlmFailureIsFatal ==
  \A k \in DOMAIN calls :
    LlmCallFailed(calls[k]) =>
      /\ pc = "done" /\ status = "failed"
      /\ k = Len(calls)
      /\ current_intel # MaxRetriesText

\* C11: the two writes of _persist_to_memory are attempted independently:
\* once persistence is over, a failed ingestion has still been followed by
\* the attempt to write the audit row, and a failed audit-row write has left
\* the ingested document in place.
PersistCalls(op) == {k \in DOMAIN calls : calls[k].op = op}
C11_PersistWritesIndependent ==
  (pc \in {"disseminate", "done"} /\ PersistCalls("ingest_document") # {}) =>
    /\ has_db => PersistCalls("db_commit") # {}
    /\ (\E k \in PersistCalls("ingest_document") : calls[k].out = <<"ok">>) =>
         doc_store = <<current_intel>>

\* The spellings of the marker phrases that occur in texts.
MarkerSpellings ==
  {"placeholder", "Placeholder", "PLACEHOLDER", "insert here", "Insert Here", "INSERT HERE",
   "no data found", "No Data Found", "NO DATA FOUND", "error", "Error", "ERROR"}
\* A text the gate is to reject: empty, under 50 characters, or holding a
\* marker phrase in some letter case.
ToBeRejected(t) ==
  \/ t = <<>>
  \/ TextLen(t) < 50
  \/ \E i \in DOMAIN t : AtomWords(t[i]) \cap MarkerSpellings # {}

\* C12: no run persists a report that the gate rejects: every text in the
\* document store and in the audit rows passes the gate.
C12_PersistedTextPassedGate ==
  /\ \A i \in DOMAIN doc_store : ~ToBeRejected(doc_store[i])
  /\ \A i \in DOMAIN sql_rows : ~ToBeRejected(sql_rows[i].response)

\* C13: a failure of either persistence write never changes the outcome of
\* the run. After a failed write the run goes on with the disseminate loop
\* as it does after two successful writes: it ends only where a disseminate
\* step carries no args mapping, and otherwise it hands every disseminate
\* step to the gateway, completes, and returns the synthesized report.
PersistFailed == \E k \in DOMAIN calls : calls[k].op \in PersistOps /\ calls[k].out = <<"raise">>
WellFormedDisseminate(p) ==
  \A i \in DOMAIN p : p[i].tool \in DisseminateTools => p[i].argsKind = "map"
DisseminateDispatched == SelectSeq(dispatched, LAMBDA i : plan[i].tool \in DisseminateTools)
C13_PersistFailureKeepsOutcome ==
  PersistFailed =>
    /\ pc \in {"disseminate", "done"}
    /\ abort_at \in {"none", "disseminate_step"}
    /\ abort_at = "disseminate_step" => ~WellFormedDisseminate(plan)
    /\ (pc = "done" /\ WellFormedDisseminate(plan)) =>
         /\ status = "complete"
         /\ returned.status = "complete"
         /\ \E k \in SynthIdx : returned.report = calls[k].out
         /\ DisseminateDispatched = ClassIdx(plan, 1, DisseminateTools)
C13_Witness ==
  /\ PersistFailed
  /\ pc = "done"
  /\ status = "complete"
  /\ Len(DisseminateDispatched) = 2
  /\ doc_store = <<>>

\* C14: the record handed back tells the outcomes apart: the trace entry
\* of every step whose gateway result is a failure (validation failure,
\* capability exception, failed archive or notify) records that failure,
\* and a run whose plan could not be read is not reported with the status
\* of a completed one.
FailureHeads ==
  {"Error: No URL provided for web_research", "Error: Invalid URL - ", "Tool Failure: ",
   "Notion Error", "Email Error"}
IsFailureText(t) == t # <<>> /\ Head(t) \in FailureHeads
Invocations_made == SelectSeq(calls, LAMBDA c : c.op = "execute_tool")
C14_RecordTellsOutcomesApart ==
  returned.status # "none" =>
    /\ Len(returned.trace) = Len(Invocations_made)
    /\ \A n \in DOMAIN returned.trace :
         IsFailureText(Invocations_made[n].out) => IsFailureText(returned.trace[n].text)
    /\ returned.status = "complete" => ~UnparsablePlan

\* C16: when the gate rejects the content of a disseminate step, the
\* capability is given the pool gathered before synthesis, or the sentinel
\* when that pool is empty, and never the rejected content itself.
C16_RejectedContentReplacedByPool ==
  \A k \in SynthIdx : \A j \in DOMAIN calls :
    (calls[j].op \in DisseminateOps /\ ToBeRejected(calls[k].out)) =>
      LET pool == PoolOf(SubSeq(calls, 1, k - 1)) IN
      /\ calls[j].arg = (IF pool # <<>> THEN pool ELSE Sentinel)
      /\ calls[j].arg # calls[k].out

(* ------------------------------------------------------------------ *)
(* Claims about the gateway                                            *)
(* ------------------------------------------------------------------ *)
CapabilityRaised(r) == \E j \in DOMAIN r.calls : r.calls[j].out = <<"raise">>

\* C6: for every tool name and args value execute_tool returns one result
\* text and never raises; an exception of a capability (or of reading a null
\* args) becomes the result "Tool Failure: <message>", and a failing search
\* yields a result carrying the message as well.
C6_GatewayNeverRaises ==
  /\ gw.pc # "raised"
  /\ gw.pc = "returned" =>
       /\ ~gw.r.raised
       /\ gw.r.res # <<>>
       /\ CapabilityRaised(gw.r) => gw.r.res = <<"Tool Failure: ", "boom">>
       /\ (gw.argsKind = "null" /\ gw.tool \in GatherTools \cup DisseminateTools) =>
            gw.r.res = <<"Tool Failure: ">> \o NoneTypeMsg
       /\ \A j \in DOMAIN gw.r.calls :
            (gw.r.calls[j].op = "search" /\ gw.env.ddgs = "raise") =>
              gw.r.res = <<"Search error: ", "boom">>
C6_Witness ==
  /\ gw.pc = "returned"
  /\ gw.tool = "save_to_notion"
  /\ gw.env.notion = "raise"
  /\ gw.r.res = <<"Tool Failure: ", "boom">>

\* C7: a web_research invocation with a valid address whose fetch was
\* blocked, timed out or failed otherwise, or gave text that contains
\* "blocked" and is under the minimum length, returns exactly what
\* SearchService.search returns for "Latest info from <url>", never the
\* fetch result.
FetchedWithValidUrl ==
  /\ gw.pc = "returned"
  /\ gw.tool = "web_research" /\ gw.argsKind = "map"
  /\ gw.args.url # <<>>
  /\ gw.env.validate = "valid"
FetchFailedOrBlockedShort ==
  \/ gw.env.scrape \in ScrapeErrors
  \/ "blocked" \in LowerWords(gw.env.scrape) /\ TextLen(gw.env.scrape) < 500
C7_FallbackReturnsSearchResult ==
  (FetchedWithValidUrl /\ FetchFailedOrBlockedShort) =>
    LET q == <<"Latest info from ">> \o gw.args.url
        expected == CASE gw.env.ddgs = "hits" -> <<"SEARCH_HITS">>
                      [] gw.env.ddgs = "none" -> <<"No search results found.">>
                      [] OTHER -> <<"Search error: ", "boom">>
    IN /\ gw.r.res = expected
       /\ gw.r.res # gw.env.scrape
       /\ Cardinality({j \in DOMAIN gw.r.calls : gw.r.calls[j].op = "search"}) = 1
       /\ \A j \in DOMAIN gw.r.calls :
            gw.r.calls[j].op = "search" =>
              gw.r.calls[j].arg = q /\ gw.r.calls[j].out = gw.r.res
C7_Witness ==
  /\ FetchedWithValidUrl
  /\ gw.env.scrape = <<"PAGE_MID_BLOCKED">>
  /\ gw.r.res = <<"SEARCH_HITS">>
  /\ gw.args.url = <<GoodUrl>>

(* ------------------------------------------------------------------ *)
(* Claims about one scrape_web call                                   *)
(* ------------------------------------------------------------------ *)
\* What the claim allows a call on top of its budget, in seconds.
Overhead == 5

\* C8: a fetch call returns within its budget, min(SCRAPER_TIMEOUT, 30)
\* seconds plus a bounded overhead, whatever the engine does (a hang in
\* startup, launch, navigation, extraction, the synchronous ingestion or a
\* close call after cancellation included): it never waits for ever.
C8_FetchReturnsWithinBudget ==
  /\ sc.pc # "stuck"
  /\ sc.pc = "returned" => sc.clock <= timeout_seconds(sc.setting) + Overhead

\* C9: on every exit path of a fetch call, every resource it opened (engine,
\* browser, context) has been released by the time the call returns.
C9_ReturnedMeansReleased ==
  sc.pc = "returned" =>
    /\ sc.engine # "open"
    /\ sc.browser # "open"
    /\ sc.context # "open"

(* ------------------------------------------------------------------ *)
(* Claims about the integrity gate                                    *)
(* ------------------------------------------------------------------ *)
\* C15: _integrity_check rejects every candidate that is empty, shorter
\* than 50 characters, or holds a marker phrase in any letter case (it
\* hands back self.current_intel, or the sentinel when that is empty), and
\* hands back unchanged every candidate of at least 50 characters without a
\* marker phrase.
C15_GateRejectsAndAccepts ==
  gw.pc = "checked" =>
    IF ToBeRejected(gw.args.content)
    THEN gw.r.res = (IF gw.intel # <<>> THEN gw.intel ELSE Sentinel)
    ELSE gw.r.res = gw.args.content
C15_Witness ==
  /\ gw.pc = "checked"
  /\ gw.args.content = <<"TEXT_49", "REPORT_WITH_ERROR_WORD">>
  /\ gw.r.res = <<"PAGE_LONG">>

(* ------------------------------------------------------------------ *)
(* Claims about the gateway: validation                               *)
(* ------------------------------------------------------------------ *)
\* C17: a web_research invocation whose args carry no address, or an
\* address that validate_url rejects, returns a validation failure and
\* attempts no call: neither scrape_web nor the fallback search is invoked.
\* (With args null instead of a mapping no call is attempted either.)
NoAddressOrRejected ==
  /\ gw.tool = "web_research"
  /\ gw.pc \in {"returned", "raised"}
  /\ gw.argsKind = "null" \/ gw.args.url = <<>> \/ gw.env.validate = "invalid"
C17_NoCallOnValidationFailure ==
  NoAddressOrRejected =>
    /\ gw.pc = "returned"
    /\ \A i \in DOMAIN gw.r.calls : gw.r.calls[i].op \notin {"scrape_web", "search"}
    /\ gw.argsKind = "map" =>
         Head(gw.r.res) \in {"Error: No URL provided for web_research", "Error: Invalid URL - "}
C17_Witness ==
  /\ NoAddressOrRejected
  /\ gw.argsKind = "map"
  /\ gw.args.url = <<PaddedUrl>>
  /\ gw.env.validate = "invalid"
  /\ gw.env.scrape = <<"PAGE_LONG">>
  /\ Len(gw.r.calls) = 1
  /\ gw.r.calls[1].op = "validate_url"

(* ------------------------------------------------------------------ *)
(* Claims about one scrape_web call: ingestion                        *)
(* ------------------------------------------------------------------ *)
\* C18: once a fetch has extracted at least 100 characters, a failing
\* ingest_document does not change the fetch result: unless a close call
\* fails or the outer timer ends the call afterwards, scrape_web returns
\* the extracted text when ingest_document raised as it does when it
\* succeeded.
C18_IngestFailureKeepsFetchResult ==
  (/\ sc.pc = "returned"
   /\ sc.ingest_out \in {"ok", "raise"}
   /\ sc.result \notin {<<"Error: ", "boom">>, <<"Error: Scrape operation timed out">>}) =>
    sc.result = sc.clean_text

(* ------------------------------------------------------------------ *)
(* Claims about concurrent runs                                       *)
(* ------------------------------------------------------------------ *)
\* What a run's own history makes of its pool, report and trace.
OwnGenerate(h, name) == {k \in DOMAIN h : h[k].op = "generate" /\ Head(h[k].arg) = name}
OwnDispatches(h) == SelectSeq(h, LAMBDA c : c.op = "execute_tool")
OwnTrace(h) ==
  [n \in DOMAIN OwnDispatches(h) |->
     LET c == OwnDispatches(h)[n] IN
     IF Head(c.arg) \in GatherTools
     THEN [tool |-> Head(c.arg), key |-> "status", text |-> <<"Gathered">>]
     ELSE [tool |-> Head(c.arg), key |-> "result", text |-> c.out]]

\* C19: for any interleaving of the runs of two requests, each run's pool,
\* report and trace are built only from that run's own plan and step
\* results: the pool is the concatenation of its own gather results, the
\* synthesis prompt holds that pool, the report is the answer to its own
\* synthesis call, the trace lists its own invocations, and its plan is
\* the one its own planning call returned (up to the content the run itself
\* writes into its disseminate steps).
RunIsolated(req) ==
  LET run == conc.runs[req]
      h == run.hist
      synth == OwnGenerate(h, "REPORT_SYNTHESIS_PROMPT")
  IN
  /\ run.pc = "gather" => Self(req) = PoolOf(h)
  /\ run.pc = "synth" => run.prompt = <<"REPORT_SYNTHESIS_PROMPT">> \o PoolOf(h)
  /\ \A k \in synth : h[k].arg = <<"REPORT_SYNTHESIS_PROMPT">> \o PoolOf(SubSeq(h, 1, k - 1))
  /\ (run.pc \in {"persist", "disseminate"} \/ run.status = "complete") =>
       \E k \in synth : Self(req) = h[k].out
  /\ run.pc \in {"gather", "synth", "persist", "disseminate"} => run.logs = OwnTrace(h)
  /\ \A k \in DOMAIN h :
       h[k].op \in DisseminateOps => \E m \in synth : h[k].arg = h[m].out
  /\ DOMAIN run.plan = DOMAIN run.planned
  /\ \A i \in DOMAIN run.plan :
       /\ run.plan[i].tool = run.planned[i].tool
       /\ run.plan[i].args.content \in {run.planned[i].args.content} \cup {h[k].out : k \in synth}
  /\ run.status = "complete" =>
       /\ \E k \in synth : run.returned.report = h[k].out
       /\ run.returned.trace = OwnTrace(h)
C19_RunsAreIsolated == \A req \in DOMAIN conc.runs : RunIsolated(req)
C19_Witness ==
  /\ DOMAIN conc.runs = Requests
  /\ conc.runs[1].status = "complete" /\ conc.runs[2].status = "complete"
  /\ conc.runs[1].returned.report # conc.runs[2].returned.report
  /\ Len(conc.runs[1].returned.trace) = 2 /\ Len(conc.runs[2].returned.trace) = 1
  /\ Len(conc.docs) = 2
  /\ conc.docs[1] = conc.runs[2].returned.report

\* C20: every blocking external call of a mission (planning, synthesis,
\* search, archive, notify, and the two persistence writes) is made off the
\* event loop: while one run is waiting in such a call, any other run that
\* has not ended can take its next step.
WaitingInCall(req) ==
  LET run == conc.runs[req] IN
  \/ run.pc \in {"planning", "synth", "persist"}
  \/ run.pc = "gather" /\ NextIdx(run.plan, run.idx, GatherTools) # 0
  \/ run.pc = "disseminate" /\ NextIdx(run.plan, run.idx, DisseminateTools) # 0
C20_BlockingCallsOffLoop ==
  \A req \in DOMAIN conc.runs : \A q \in DOMAIN conc.runs :
    (q # req /\ WaitingInCall(req) /\ conc.runs[q].pc # "done") => ENABLED RequestStep(q)

(* ------------------------------------------------------------------ *)
(* Claims about the mission run: termination                           *)
(* ------------------------------------------------------------------ *)
\* C21: a mission run that has started eventually ends, in exactly one of
\* the outcomes COMPLETE (process_mission returned) and FAILED (an exception
\* left it), when every call it makes returns or raises; until then it has
\* no outcome, and once it has ended it takes no further step.
Terminal == pc = "done" /\ status \in {"complete", "failed"}
C21_RunEndsCompleteOrFailed ==
  /\ (pc # "idle") ~> Terminal
  /\ [](pc = "done" => status \in {"complete", "failed"})
  /\ [](status = "complete" <=> returned # NoRecord)
  /\ [](pc # "done" => status = "running")
  /\ [][Terminal => UNCHANGED vars]_vars
C21_Witness ==
  /\ Terminal /\ status = "failed"
  /\ abort_at = "synthesis"
  /\ Len(logs) = 2

(* ------------------------------------------------------------------ *)
(* Claims about the gateway: when a fetched page is replaced           *)
(* ------------------------------------------------------------------ *)
PageFetched == FetchedWithValidUrl /\ gw.env.scrape \notin ScrapeErrors
SearchIssued == \E j \in DOMAIN gw.r.calls : gw.r.calls[j].op = "search"
BlockSpellings == {"cookie", "Cookie", "blocked", "verify", "robot"}
Marked == \E i \in DOMAIN gw.env.scrape : AtomWords(gw.env.scrape[i]) \cap BlockSpellings # {}
Short == TextLen(gw.env.scrape) < 500
ReturnedUnchanged == gw.r.res = gw.env.scrape /\ ~SearchIssued

TimedLayers == {"aenter", "launch", "stealth", "goto1", "goto2"}
LayerLimit ==
  CASE sc.pc = "aenter" -> InitTimeout
    [] sc.pc = "launch" -> LaunchTimeout
    [] sc.pc = "stealth" -> StealthTimeout
    [] sc.pc = "goto1" -> timeout_seconds(sc.setting)
    [] OTHER -> CommitTimeout

\* C23: whenever a scrape_web call stands at the start of a layer with a
\* time limit of its own (engine startup, browser launch, stealth setup,
\* first and second navigation), that limit is strictly smaller than what is
\* left of the call's budget min(SCRAPER_TIMEOUT, 30), so a hang in the layer
\* is ended by the layer's limit before the budget expires.
C23_SubTimeoutsBelowRemainingBudget ==
  (sc.pc \in TimedLayers /\ ~sc.fired) =>
    LayerLimit < timeout_seconds(sc.setting) - sc.clock

(* ------------------------------------------------------------------ *)
(* Claims about GroqClient.generate                                    *)
(* ------------------------------------------------------------------ *)
RateLimited(k) == gq.posts[k].kind = "rate_limit"

\* C24: one generate call makes at most max_retries HTTP requests, each
\* under the next attempt number; after the last of them it has returned a
\* text or raised; and of two rate-limited attempts the later one is
\* followed by the strictly longer wait.
C24_BoundedRetriesIncreasingBackoff ==
  /\ Len(gq.posts) <= max_retries
  /\ \A k \in DOMAIN gq.posts : gq.posts[k].attempt = k - 1
  /\ Len(gq.posts) = max_retries => gq.pc \in {"returned", "raised"}
  /\ gq.pc = "returned" => gq.out # <<>>
  /\ \A j \in DOMAIN gq.posts : RateLimited(j) => gq.posts[j].sleep > 0
  /\ \A j \in DOMAIN gq.posts : \A k \in DOMAIN gq.posts :
       (j < k /\ RateLimited(j) /\ RateLimited(k)) => gq.posts[j].sleep < gq.posts[k].sleep
C24_Witness ==
  /\ gq.pc = "returned"
  /\ Len(gq.posts) = max_retries
  /\ \A k \in DOMAIN gq.posts : RateLimited(k)
  /\ gq.out = MaxRetriesText

(* ------------------------------------------------------------------ *)
(* Claims about the mission run: steps with unusable args              *)
(* ------------------------------------------------------------------ *)
KnownSteps(p) == {i \in DOMAIN p : p[i].tool \in GatherTools \cup DisseminateTools}

\* C25: process_mission never stops at a step because of the step's args:
\* a gather or disseminate step whose args are absent, null or lack the
\* keys of its tool is still handed to execute_tool and gets its trace
\* entry, so a run is never ended at the step itself and a completed run
\* has dispatched and recorded every gather and disseminate step.
C25_ArgsLeftToHandler ==
  /\ abort_at \notin {"gather_step", "disseminate_step"}
  /\ status = "complete" =>
       /\ {dispatched[k] : k \in DOMAIN dispatched} = KnownSteps(plan)
       /\ Len(logs) = Cardinality(KnownSteps(plan))

(* ------------------------------------------------------------------ *)
(* Claims about the mission run: steps with an unknown tool            *)
(* ------------------------------------------------------------------ *)
UnknownSteps(p) == DOMAIN p \ KnownSteps(p)
ToolNotFound(tool) == <<"Error: Tool '", tool, "' not found.">>
\* The capability calls, as opposed to the gateway and model calls.
CapabilityOps == {"validate_url", "scrape_web", "search", "create_page", "send_email"}

\* C26: a step whose tool is outside the closed set never ends the run and
\* reaches no capability; in a completed run it has been handled as an
\* error (the gateway answered "Error: Tool '<tool>' not found." for it and
\* the trace holds that result), and every known-tool step was executed.
C26_UnknownToolHandledAsError ==
  /\ abort_at \in {"gather_step", "disseminate_step", "gateway"} => idx \in KnownSteps(plan)
  /\ \A k \in DOMAIN calls :
       calls[k].op \in CapabilityOps =>
         \A i \in UnknownSteps(plan) : calls[k].arg # <<plan[i].tool>>
  /\ status = "complete" =>
       /\ KnownSteps(plan) \subseteq {dispatched[k] : k \in DOMAIN dispatched}
       /\ \A i \in UnknownSteps(plan) :
            /\ \E k \in DOMAIN calls :
                 calls[k] = Call("execute_tool", <<plan[i].tool>>, ToolNotFound(plan[i].tool))
            /\ \E n \in DOMAIN logs : logs[n].tool = plan[i].tool

(* ------------------------------------------------------------------ *)
(* Claims about what leaves the orchestrator                           *)
(* ------------------------------------------------------------------ *)
\* The texts a run may hand to a store or to a dissemination capability:
\* what a synthesis call answered, or the sentinel of the gate.
SynthesizedTexts == {calls[k].out : k \in SynthIdx} \cup {Sentinel}
\* The texts the run wrote or sent.
WrittenOrSent ==
  {doc_store[i] : i \in DOMAIN doc_store} \cup {sql_rows[i].response : i \in DOMAIN sql_rows}
  \cup {calls[k].arg : k \in {j \in DOMAIN calls : calls[j].op \in DisseminateOps \cup PersistOps}}

\* C27: raw gather output never reaches the document store, the relational
\* store, the archive or the notify capability: every text a run writes or
\* sends is a synthesized report (or the gate's sentinel), and a fetch made
\* for a gather step writes nothing of the page it read to the document
\* store.
C27_OnlyReportLeavesOrchestrator ==
  /\ WrittenOrSent \subseteq SynthesizedTexts
  /\ sc.ingest_out = "none"
  /\ sc.ingested = <<>>

(* ------------------------------------------------------------------ *)
(* Claims about one scrape_web call: ingestion and the fallback        *)
(* ------------------------------------------------------------------ *)
\* C28: page text is ingested only when the gateway hands that text on:
\* whenever scrape_web has returned a result that web_research replaces by
\* the fallback search (a text under 500 characters or one holding a block
\* marker), the call has ingested nothing.
C28_NoIngestionWhenFallback ==
  (sc.pc = "returned" /\ NeedsFallback(sc.result)) =>
    /\ sc.ingested = <<>>
    /\ sc.ingest_out # "ok"

====
